---- MODULE Spec2Model ----
(***************************************************************************)
(* Model of main.py: the classification-and-cleanup pipeline of the macOS  *)
(* system data cleaner.  A batch of scanned files is classified by an      *)
(* external oracle through a thread pool (classify_file_with_openai, with  *)
(* its retry loop), the results are aggregated by the main thread under    *)
(* to_delete_lock (cleanup_files), the operator then selects what to move  *)
(* (display_and_filter_files) and, after a confirmation, cleanup_files     *)
(* relocates the selection with move_to_backup.                            *)
(*                                                                         *)
(* Text is modelled as a tuple of one-character strings, so that lower(),  *)
(* strip(), split(",") and the substring test are computed, not assumed.   *)
(***************************************************************************)
EXTENDS Integers, Sequences, FiniteSets, TLC

VARIABLES
    files,          \* the batch handed to cleanup_files: sequence of paths (metadata["path"])
    oracle,         \* oracle[i]: the replies the oracle service can give about record i (environment)
    setup_fails,    \* whether building the per-call logger / client can raise (environment)
    max_workers,    \* ThreadPoolExecutor(max_workers=...)
    DRY_RUN,        \* the configuration flag of line 19
    submitted,      \* number of executor.submit calls made so far
    future,         \* future[i]: "none", "pending", "running", "finished", "raised"
    wpc,            \* position of task i inside classify_file_with_openai
    attempt,        \* the loop variable of `for attempt in range(3)` of task i
    result,         \* what future[i].result() returns: the classification
    replies,        \* log: the oracle's replies to task i, in order
    waits,          \* log: number of rate-limit cooldowns task i has slept
    handlers,       \* handlers[t]: the task whose FileHandler logger Thread_t holds (0: none)
    thread_log,     \* records whose classification a thread logger has written (line 167)
    pc,             \* position of the main thread in cleanup_files
    cur,            \* the record the main thread is handling (0: none)
    processed,      \* cleanup_files' counter of results taken
    yielded,        \* futures as_completed has already yielded
    to_delete,      \* the global list to_delete (record indices)
    program_files,  \* program -> list of records
    importance,     \* metadata[i]["importance"] once attached ("" before)
    reason,         \* metadata[i]["reason"] once attached ("" before)
    to_delete_lock, \* "free" or the holder
    programs_to_keep, \* display_and_filter_files: programs the operator keeps
    sel_k,          \* display_and_filter_files: place of the loop of line 259 in ProgramOrder
    levels_chosen,  \* log: program -> levels_to_delete parsed for it
    to_move,        \* display_and_filter_files: the list being built / returned
    confirm,        \* what the operator typed at the prompt of line 338 ("-" before)
    move_k,         \* place of the loop of line 343 in to_move
    attempts,       \* log: the records move_to_backup was called with, in order
    present,        \* file system: records whose file is at its original path
    dirs,           \* file system: directories os.makedirs has made (resolved)
    dest_files,     \* file system: paths a file was moved to (resolved)
    main_log,       \* main_logger's entries of the relocation, in order
    outcome         \* how the run ended ("" while running)

vars == <<files, oracle, setup_fails, max_workers, DRY_RUN, submitted, future, wpc,
          attempt, result, replies, waits, handlers, thread_log, pc, cur, processed,
          yielded, to_delete, program_files, importance, reason, to_delete_lock,
          programs_to_keep, sel_k, levels_chosen, to_move, confirm, move_k, attempts,
          present, dirs, dest_files, main_log, outcome>>

poolVars == <<submitted, future, wpc, attempt, result, replies, waits, handlers,
              thread_log>>
aggVars  == <<cur, processed, yielded, to_delete, program_files, importance, reason,
              to_delete_lock>>
selVars  == <<programs_to_keep, sel_k, levels_chosen, to_move>>
envVars  == <<files, oracle, setup_fails, max_workers, DRY_RUN>>
moveVars == <<confirm, move_k, attempts, present, dirs, dest_files, main_log>>

-----------------------------------------------------------------------------
(* Configuration (main.py lines 16-31) *)

NUM_THREADS == 4

KNOWN_PROGRAMS == <<"Android Studio", "Transporter">>

\* program_files = {program: [] for program in KNOWN_PROGRAMS + ["Others"]}: key order
ProgramOrder == KNOWN_PROGRAMS \o <<"Others">>
Programs == {ProgramOrder[k] : k \in 1..Len(ProgramOrder)}

-----------------------------------------------------------------------------
(* Python str operations on character tuples *)

\* the characters of the str values that occur in the model
Chars(s) ==
    CASE s = "Android Studio" -> <<"A","n","d","r","o","i","d"," ","S","t","u","d","i","o">>
      [] s = "Transporter"    -> <<"T","r","a","n","s","p","o","r","t","e","r">>
      [] s = "Others"         -> <<"O","t","h","e","r","s">>
      [] s = "Low"            -> <<"L","o","w">>
      [] s = "Medium"         -> <<"M","e","d","i","u","m">>
      [] s = "High"           -> <<"H","i","g","h">>
      [] s = "none"           -> <<"n","o","n","e">>
      [] s = "all"            -> <<"a","l","l">>
      [] s = "/L/Android Studio/a" ->
            <<"/","L","/","A","n","d","r","o","i","d"," ","S","t","u","d","i","o","/","a">>
      [] s = "/L/ANDROID STUDIO/a" ->
            <<"/","L","/","A","N","D","R","O","I","D"," ","S","T","U","D","I","O","/","a">>
      [] s = "/L/transporter.log" ->
            <<"/","L","/","t","r","a","n","s","p","o","r","t","e","r",".","l","o","g">>
      [] s = "/L/Transporter/android studio" ->
            <<"/","L","/","T","r","a","n","s","p","o","r","t","e","r","/",
              "a","n","d","r","o","i","d"," ","s","t","u","d","i","o">>
      [] s = "/L/AndroidStudio/a" ->
            <<"/","L","/","A","n","d","r","o","i","d","S","t","u","d","i","o","/","a">>
      [] s = "/L/x.db" -> <<"/","L","/","x",".","d","b">>
      [] s = "" -> <<>>
      [] s = " ALL " -> <<" ","A","L","L"," ">>
      [] s = "others" -> <<"o","t","h","e","r","s">>
      [] s = "bogus" -> <<"b","o","g","u","s">>
      [] s = "Android Studio, Transporter" ->
            <<"A","n","d","r","o","i","d"," ","S","t","u","d","i","o",",",
              " ","T","r","a","n","s","p","o","r","t","e","r">>
      [] s = "bogus ,android studio" ->
            <<"b","o","g","u","s"," ",",","a","n","d","r","o","i","d"," ","s","t","u","d","i","o">>
      [] s = "low" -> <<"l","o","w">>
      [] s = "Low, medium" -> <<"L","o","w",","," ","m","e","d","i","u","m">>
      [] s = "HIGH ,bogus" -> <<"H","I","G","H"," ",",","b","o","g","u","s">>
      [] s = "medium,high,medium" ->
            <<"m","e","d","i","u","m",",","h","i","g","h",",","m","e","d","i","u","m">>
      [] s = "/Users/u" ->
            <<"/","U","s","e","r","s","/","u">>
      [] s = "/Users/u/SystemDataCleanupBackup" ->
            <<"/","U","s","e","r","s","/","u","/","S","y","s","t","e","m","D","a","t",
              "a","C","l","e","a","n","u","p","B","a","c","k","u","p">>
      [] s = "/Users/u/Library/Caches/app/x.db" ->
            <<"/","U","s","e","r","s","/","u","/","L","i","b","r","a","r","y","/","C",
              "a","c","h","e","s","/","a","p","p","/","x",".","d","b">>
      [] s = "/Library/Caches/app/x.db" ->
            <<"/","L","i","b","r","a","r","y","/","C","a","c","h","e","s","/","a","p",
              "p","/","x",".","d","b">>
      [] s = "/Users/u/Library/Logs/app/x.db" ->
            <<"/","U","s","e","r","s","/","u","/","L","i","b","r","a","r","y","/","L",
              "o","g","s","/","a","p","p","/","x",".","d","b">>
      [] s = "/private/var/tmp/z" ->
            <<"/","p","r","i","v","a","t","e","/","v","a","r","/","t","m","p","/","z">>
      [] s = "/Users/u/Library/Caches/Android Studio/a" ->
            <<"/","U","s","e","r","s","/","u","/","L","i","b","r","a","r","y","/","C",
              "a","c","h","e","s","/","A","n","d","r","o","i","d"," ","S","t","u","d",
              "i","o","/","a">>
      [] s = "y" ->
            <<"y">>
      [] s = "Y" ->
            <<"Y">>
      [] s = "n" ->
            <<"n">>
      [] s = "yes" ->
            <<"y","e","s">>
      [] s = " y" ->
            <<" ","y">>

UpperChars == <<"A","B","C","D","E","F","G","H","I","J","K","L","M",
                "N","O","P","Q","R","S","T","U","V","W","X","Y","Z">>
LowerChars == <<"a","b","c","d","e","f","g","h","i","j","k","l","m",
                "n","o","p","q","r","s","t","u","v","w","x","y","z">>

\* str.lower() on one character
LowerChar(c) ==
    IF \E k \in 1..Len(UpperChars) : UpperChars[k] = c
    THEN LowerChars[CHOOSE k \in 1..Len(UpperChars) : UpperChars[k] = c]
    ELSE c

\* str.upper() on one character
UpperChar(c) ==
    IF \E k \in 1..Len(LowerChars) : LowerChars[k] = c
    THEN UpperChars[CHOOSE k \in 1..Len(LowerChars) : LowerChars[k] = c]
    ELSE c

\* s.lower()
Lower(s) == [k \in 1..Len(s) |-> LowerChar(s[k])]

\* s.capitalize(): first character upper-cased, the rest lower-cased
Capitalize(s) == [k \in 1..Len(s) |-> IF k = 1 THEN UpperChar(s[k]) ELSE LowerChar(s[k])]

\* `sub in s` for two str values
Contains(s, sub) ==
    \E off \in 0..(Len(s) - Len(sub)) :
        \A k \in 1..Len(sub) : s[off + k] = sub[k]

\* s.strip(): leading and trailing blanks removed
RECURSIVE LStrip(_)
LStrip(s) == IF s # <<>> /\ Head(s) = " " THEN LStrip(Tail(s)) ELSE s

RECURSIVE RStrip(_)
RStrip(s) == IF s # <<>> /\ s[Len(s)] = " " THEN RStrip(SubSeq(s, 1, Len(s) - 1)) ELSE s

Strip(s) == RStrip(LStrip(s))

\* s.split(","): the pieces between commas (always at least one piece)
RECURSIVE SplitFrom(_, _, _)
SplitFrom(s, k, piece) ==
    IF k > Len(s) THEN <<piece>>
    ELSE IF s[k] = "," THEN <<piece>> \o SplitFrom(s, k + 1, <<>>)
    ELSE SplitFrom(s, k + 1, Append(piece, s[k]))

Split(s) == SplitFrom(s, 1, <<>>)

\* the elements of a list, as a set
Range(seq) == {seq[k] : k \in 1..Len(seq)}

-----------------------------------------------------------------------------
(* Python os.path operations (posixpath) on absolute paths *)

\* [x for x in path.split("/") if x]: the components of a path
RECURSIVE PathListFrom(_, _, _)
PathListFrom(s, k, piece) ==
    IF k > Len(s) THEN (IF piece = <<>> THEN <<>> ELSE <<piece>>)
    ELSE IF s[k] = "/"
    THEN (IF piece = <<>> THEN <<>> ELSE <<piece>>) \o PathListFrom(s, k + 1, <<>>)
    ELSE PathListFrom(s, k + 1, Append(piece, s[k]))

PathList(s) == PathListFrom(s, 1, <<>>)

\* os.path.pardir
pardir == <<".", ".">>

\* len(commonprefix([start_list, path_list])) of posixpath.relpath
RECURSIVE CommonLen(_, _)
CommonLen(a, b) ==
    IF a # <<>> /\ b # <<>> /\ Head(a) = Head(b) THEN 1 + CommonLen(Tail(a), Tail(b)) ELSE 0

\* relpath that keeps the file name only
relpath_basename(path_list, start_list) ==
    SubSeq(path_list, Len(path_list), Len(path_list))

\* os.path.relpath(path, start) as a list of components: one pardir for every
\* component of start outside the common prefix, then the rest of path
relpath(path_list, start_list) ==
    LET i == CommonLen(start_list, path_list)
    IN  [k \in 1..(Len(start_list) - i) |-> pardir] \o SubSeq(path_list, i + 1, Len(path_list))

\* os.path.join(a, b) for a relative b
join(a_list, b_list) == a_list \o b_list

\* os.path.dirname
dirname(path_list) == SubSeq(path_list, 1, Len(path_list) - 1)

\* the place a path names in the file system: every pardir steps to the parent
\* (the parent of the root is the root)
RECURSIVE ResolveFrom(_, _)
ResolveFrom(done, rest) ==
    IF rest = <<>> THEN done
    ELSE IF Head(rest) = pardir
    THEN ResolveFrom(IF done = <<>> THEN <<>> ELSE SubSeq(done, 1, Len(done) - 1), Tail(rest))
    ELSE ResolveFrom(Append(done, Head(rest)), Tail(rest))

Resolve(path_list) == ResolveFrom(<<>>, path_list)

-----------------------------------------------------------------------------
(* get_program_name (lines 185-191) *)

RECURSIVE FirstProgramIn(_, _)
FirstProgramIn(path_lower, k) ==
    IF k > Len(KNOWN_PROGRAMS) THEN "Others"
    ELSE IF Contains(path_lower, Lower(Chars(KNOWN_PROGRAMS[k]))) THEN KNOWN_PROGRAMS[k]
    ELSE FirstProgramIn(path_lower, k + 1)

\* get_program_name without path.lower()
get_program_name_case_sensitive(file_path) == FirstProgramIn(Chars(file_path), 1)

get_program_name(file_path) == FirstProgramIn(Lower(Chars(file_path)), 1)

-----------------------------------------------------------------------------
(* The oracle exchange and the retry loop of classify_file_with_openai      *)
(* (lines 149-183).  JSON values are written as their JSON text, so that     *)
(* Python's truth test `not x` is computed on what the oracle really sent.   *)

\* for attempt in range(3)
MAX_ATTEMPTS == 3

Tiers == {"Low", "Medium", "High"}
RequiredKeys == {"important", "importance", "reason"}

\* One reply of client.chat.completions.create:
\*   rate_limit       openai.RateLimitError is raised
\*   transport_error  any other exception is raised by the call
\*   text             content that json.loads rejects (JSONDecodeError)
\*   value            content that parses to a JSON value that is no object and on
\*                    which `key in result` raises TypeError (a number, null)
\*   object           content that parses to a JSON object with the given keys
NoField == "-"
Reply(kind, keys, imp, tier, why) ==
    [kind |-> kind, keys |-> keys, important |-> imp, importance |-> tier, reason |-> why]

RateLimit      == Reply("rate_limit", {}, NoField, NoField, NoField)
TransportError == Reply("transport_error", {}, NoField, NoField, NoField)
BadText        == Reply("text", {}, NoField, NoField, NoField)
NonObject      == Reply("value", {}, NoField, NoField, NoField)
Object(imp, tier) == Reply("object", RequiredKeys, imp, tier, "oracle reason")

\* values the oracle may put under "important": the two booleans, JSON null and
\* the JSON string "false"
ImportantValues == {"true", "false", "null", "'false'"}
\* values the oracle may put under "importance": the three tiers and one other
ImportanceValues == Tiers \cup {"Critical"}

WellFormedObjects == {Object(imp, tier) : imp \in ImportantValues, tier \in ImportanceValues}
PartialObjects ==
    { Reply("object", {"important", "reason"}, "false", NoField, "oracle reason"),
      Reply("object", {"importance", "reason"}, NoField, "Low", "oracle reason"),
      Reply("object", {}, NoField, NoField, NoField) }

OracleReplies ==
    {RateLimit, TransportError, BadText, NonObject} \cup WellFormedObjects \cup PartialObjects

\* Python's `not x` on a parsed JSON value / a Python bool
Falsy(v) == v \in {"false", "null", "0", "''"}

Classification(imp, tier, why) == [important |-> imp, importance |-> tier, reason |-> why]
NoResult == Classification(NoField, NoField, NoField)

\* FailSafe with the verdict inverted: a failed classification marks the file deletable
FailSafeDeletes(why) == Classification("false", "Low", why)

\* the fail-safe dict of lines 171, 174, 180, 183
FailSafe(why) == Classification("true", "High", why)

\* Validated without the default of line 166
ValidatedKeepsTier(reply) ==
    Classification(reply.important, reply.importance, reply.reason)

\* lines 164-168: a parsed object that has the three keys
Validated(reply) ==
    Classification(reply.important,
                   IF reply.importance \notin Tiers THEN "Medium" ELSE reply.importance,
                   reply.reason)

\* HandleReply with a transport error retried like a rate limit
HandleReplyRetriesErrors(reply) ==
    CASE reply.kind \in {"rate_limit", "transport_error"} -> NoResult
      [] reply.kind = "text"            -> FailSafe("JSON parse error")
      [] reply.kind = "value"           -> FailSafe("API error")
      [] OTHER ->
            IF RequiredKeys \subseteq reply.keys
            THEN Validated(reply)
            ELSE FailSafe("Invalid JSON structure")

\* lines 161-180: what one reply makes the invocation return; NoResult when the
\* loop goes on (the except RateLimitError branch)
HandleReply(reply) ==
    CASE reply.kind = "rate_limit"      -> NoResult
      [] reply.kind = "transport_error" -> FailSafe("API error")
      [] reply.kind = "text"            -> FailSafe("JSON parse error")
      [] reply.kind = "value"           -> FailSafe("API error")
      [] OTHER ->
            IF RequiredKeys \subseteq reply.keys
            THEN Validated(reply)
            ELSE FailSafe("Invalid JSON structure")

-----------------------------------------------------------------------------
(* The worker pool: ThreadPoolExecutor(max_workers=NUM_THREADS), lines 301-303 *)

Records == 1..Len(files)

\* classify_file_with_openai(metadata, i % NUM_THREADS + 1): enumerate() counts from 0
thread_id(i) == ((i - 1) % NUM_THREADS) + 1

\* setup_thread_logger (lines 45-52): logging.getLogger("Thread_<t>") is one object
\* per name, and line 51 replaces its handlers by the new FileHandler of this call
setup_thread_logger(t, i) == [handlers EXCEPT ![t] = i]

\* line 167: the reply whose classification the thread logger writes
Logged(reply) == reply.kind = "object" /\ RequiredKeys \subseteq reply.keys

Running == {i \in Records : future[i] = "running"}
Pending == {i \in Records : future[i] = "pending"}

\* executor.submit (the dict comprehension of lines 302-303), one record at a time
Submit ==
    /\ pc = "submit"
    /\ submitted < Len(files)
    /\ submitted' = submitted + 1
    /\ future' = [future EXCEPT ![submitted + 1] = "pending"]
    /\ UNCHANGED <<wpc, attempt, result, replies, waits, handlers, thread_log, pc>>
    /\ UNCHANGED <<aggVars, selVars, envVars, moveVars, outcome>>

\* all futures made: `for future in as_completed(future_to_file)` begins
BeginCollect ==
    /\ pc = "submit"
    /\ submitted = Len(files)
    /\ pc' = "collect"
    /\ UNCHANGED <<poolVars, aggVars, selVars, envVars, moveVars, outcome>>

\* CanStart for a pool that starts a thread per queued item, without max_workers
CanStartUnbounded(i) ==
    /\ future[i] = "pending"
    /\ \A j \in Pending : i <= j

\* an idle pool thread takes the oldest queued work item
CanStart(i) ==
    /\ future[i] = "pending"
    /\ \A j \in Pending : i <= j
    /\ Cardinality(Running) < max_workers

\* the task starts and lines 130-148 build its logger, client and prompt
Start(i) ==
    /\ CanStart(i)
    /\ future' = [future EXCEPT ![i] = "running"]
    /\ wpc' = [wpc EXCEPT ![i] = "request"]
    /\ attempt' = [attempt EXCEPT ![i] = 0]
    /\ handlers' = setup_thread_logger(thread_id(i), i)
    /\ UNCHANGED <<submitted, result, replies, waits, thread_log, pc>>
    /\ UNCHANGED <<aggVars, selVars, envVars, moveVars, outcome>>

\* the task starts, line 130 sets its logger up and line 131 raises (outside any
\* try): the exception is stored in the future
StartRaises(i) ==
    /\ setup_fails
    /\ CanStart(i)
    /\ future' = [future EXCEPT ![i] = "raised"]
    /\ wpc' = [wpc EXCEPT ![i] = "raised"]
    /\ handlers' = setup_thread_logger(thread_id(i), i)
    /\ UNCHANGED <<submitted, attempt, result, replies, waits, thread_log, pc>>
    /\ UNCHANGED <<aggVars, selVars, envVars, moveVars, outcome>>

\* one pass of the loop body, lines 150-180: a request, its reply, and what the
\* reply leads to
Request(i) ==
    /\ future[i] = "running"
    /\ wpc[i] = "request"
    /\ \E reply \in oracle[i] :
        /\ replies' = [replies EXCEPT ![i] = Append(@, reply)]
        /\ IF HandleReply(reply) = NoResult
           THEN /\ wpc' = [wpc EXCEPT ![i] = "cooldown"]
                /\ UNCHANGED <<future, result>>
           ELSE /\ wpc' = [wpc EXCEPT ![i] = "returned"]
                /\ result' = [result EXCEPT ![i] = HandleReply(reply)]
                /\ future' = [future EXCEPT ![i] = "finished"]
        /\ thread_log' = IF Logged(reply) THEN thread_log \cup {i} ELSE thread_log
    /\ UNCHANGED <<submitted, attempt, waits, handlers, pc>>
    /\ UNCHANGED <<aggVars, selVars, envVars, moveVars, outcome>>

\* after a rate limit: time.sleep(5) (line 177), time.sleep(0.1) (line 181), the next
\* value of attempt; when range(3) is used up, lines 182-183 return the fail-safe
Cooldown(i) ==
    /\ future[i] = "running"
    /\ wpc[i] = "cooldown"
    /\ waits' = [waits EXCEPT ![i] = @ + 1]
    /\ attempt' = [attempt EXCEPT ![i] = @ + 1]
    /\ IF attempt[i] + 1 < MAX_ATTEMPTS
       THEN /\ wpc' = [wpc EXCEPT ![i] = "request"]
            /\ UNCHANGED <<future, result>>
       ELSE /\ wpc' = [wpc EXCEPT ![i] = "returned"]
            /\ result' = [result EXCEPT ![i] = FailSafe("Failed after retries")]
            /\ future' = [future EXCEPT ![i] = "finished"]
    /\ UNCHANGED <<submitted, replies, handlers, thread_log, pc>>
    /\ UNCHANGED <<aggVars, selVars, envVars, moveVars, outcome>>

-----------------------------------------------------------------------------
(* The aggregation loop of cleanup_files, run by the main thread (lines 304-321) *)

\* line 308: `if not classification["important"]`
Retained(classification) == Falsy(classification.important)

\* Collect without `with to_delete_lock`
CollectWithoutLock(i) ==
    /\ pc = "collect"
    /\ i \notin yielded
    /\ future[i] = "finished"
    /\ yielded' = yielded \cup {i}
    /\ processed' = processed + 1
    /\ cur' = i
    /\ pc' = IF Retained(result[i]) THEN "cs_fields" ELSE pc
    /\ UNCHANGED <<to_delete, program_files, importance, reason, to_delete_lock>>
    /\ UNCHANGED <<poolVars, selVars, envVars, moveVars, outcome>>

\* as_completed yields a finished future, future.result() returns its pair, and
\* lines 307-309 count it and, for a record to retain, enter `with to_delete_lock`
Collect(i) ==
    /\ pc = "collect"
    /\ i \notin yielded
    /\ future[i] = "finished"
    /\ yielded' = yielded \cup {i}
    /\ processed' = processed + 1
    /\ cur' = i
    /\ IF Retained(result[i])
       THEN /\ to_delete_lock = "free"
            /\ to_delete_lock' = "main"
            /\ pc' = "cs_fields"
       ELSE UNCHANGED <<to_delete_lock, pc>>
    /\ UNCHANGED <<to_delete, program_files, importance, reason>>
    /\ UNCHANGED <<poolVars, selVars, envVars, moveVars, outcome>>

\* as_completed yields a future that holds an exception: future.result() (line 306)
\* re-raises it, and the `with ThreadPoolExecutor` block is left by the exception
CollectRaises(i) ==
    /\ pc = "collect"
    /\ i \notin yielded
    /\ future[i] = "raised"
    /\ yielded' = yielded \cup {i}
    /\ cur' = i
    /\ pc' = "unwinding"
    /\ UNCHANGED <<processed, to_delete, program_files, importance, reason, to_delete_lock>>
    /\ UNCHANGED <<poolVars, selVars, envVars, moveVars, outcome>>

\* lines 310-311
AttachFields ==
    /\ pc = "cs_fields"
    /\ importance' = [importance EXCEPT ![cur] = result[cur].importance]
    /\ reason' = [reason EXCEPT ![cur] = result[cur].reason]
    /\ pc' = "cs_append"
    /\ UNCHANGED <<cur, processed, yielded, to_delete, program_files, to_delete_lock>>
    /\ UNCHANGED <<poolVars, selVars, envVars, moveVars, outcome>>

\* line 312
AppendToDelete ==
    /\ pc = "cs_append"
    /\ to_delete' = Append(to_delete, cur)
    /\ pc' = "cs_group"
    /\ UNCHANGED <<cur, processed, yielded, program_files, importance, reason, to_delete_lock>>
    /\ UNCHANGED <<poolVars, selVars, envVars, moveVars, outcome>>

\* AppendGroup that assigns the group instead of appending to it
AppendGroupOverwrites ==
    /\ pc = "cs_group"
    /\ program_files' = [program_files EXCEPT ![get_program_name(files[cur])] = <<cur>>]
    /\ pc' = "cs_exit"
    /\ UNCHANGED <<cur, processed, yielded, to_delete, importance, reason, to_delete_lock>>
    /\ UNCHANGED <<poolVars, selVars, envVars, moveVars, outcome>>

\* lines 313-315 (total_size is only summed, never read: not modelled)
AppendGroup ==
    /\ pc = "cs_group"
    /\ program_files' =
          [program_files EXCEPT ![get_program_name(files[cur])] = Append(@, cur)]
    /\ pc' = "cs_exit"
    /\ UNCHANGED <<cur, processed, yielded, to_delete, importance, reason, to_delete_lock>>
    /\ UNCHANGED <<poolVars, selVars, envVars, moveVars, outcome>>

\* the end of the `with to_delete_lock` block, back to the as_completed loop
ReleaseLock ==
    /\ pc = "cs_exit"
    /\ to_delete_lock' = "free"
    /\ pc' = "collect"
    /\ UNCHANGED <<cur, processed, yielded, to_delete, program_files, importance, reason>>
    /\ UNCHANGED <<poolVars, selVars, envVars, moveVars, outcome>>

\* EndCollect that leaves the loop after the first result and shuts the pool down
\* without waiting for it
EndCollectEarly ==
    /\ pc = "collect"
    /\ yielded # {}
    /\ pc' = "classified"
    /\ UNCHANGED <<poolVars, aggVars, selVars, envVars, moveVars, outcome>>

\* every future has been yielded: the `with` block ends (the pool shuts down, all
\* its work done) and lines 323-324 log "Classification complete"
EndCollect ==
    /\ pc = "collect"
    /\ yielded = Records
    /\ pc' = "classified"
    /\ UNCHANGED <<poolVars, aggVars, selVars, envVars, moveVars, outcome>>

\* leaving the `with` block by an exception: executor.shutdown(wait=True) lets the
\* pool finish every work item, then the exception leaves cleanup_files and main,
\* and line 371 logs "Unexpected error"
Unwound ==
    /\ pc = "unwinding"
    /\ \A i \in Records : future[i] \in {"finished", "raised"}
    /\ pc' = "crashed"
    /\ outcome' = "unexpected error"
    /\ UNCHANGED <<poolVars, aggVars, selVars, envVars, moveVars>>

-----------------------------------------------------------------------------
(* After the phase: lines 326-334 of cleanup_files and display_and_filter_files *)

\* line 239: valid_programs = [p for p in program_files if program_files[p]]
valid_programs == SelectSeq(ProgramOrder, LAMBDA p : program_files[p] # <<>>)

\* NextPrompt without the `program in programs_to_keep` test of line 260
RECURSIVE NextPromptIgnoresKeep(_, _)
NextPromptIgnoresKeep(k, keep) ==
    IF k > Len(ProgramOrder) THEN k
    ELSE IF program_files[ProgramOrder[k]] # <<>> THEN k
    ELSE NextPromptIgnoresKeep(k + 1, keep)

\* the loop of line 259: the first program at or after place k that has files and is
\* not kept (line 260), or the place past the last program
RECURSIVE NextPrompt(_, _)
NextPrompt(k, keep) ==
    IF k > Len(ProgramOrder) THEN k
    ELSE IF program_files[ProgramOrder[k]] # <<>> /\ ProgramOrder[k] \notin Range(keep)
    THEN k
    ELSE NextPrompt(k + 1, keep)

\* lines 244-254: what the operator's answer to "Which programs' files to KEEP?"
\* gives; ok is FALSE when the prompt is repeated (line 255)
ParseKeep(response) ==
    LET r == Lower(Strip(Chars(response)))
        valid_lower == {Lower(Chars(vp)) : vp \in Range(valid_programs)}
        typed == {Strip(piece) : piece \in Range(Split(r))} \cap valid_lower
    IN  IF r = Chars("none") THEN [ok |-> TRUE, keep |-> <<>>]
        ELSE IF r = Chars("all") THEN [ok |-> TRUE, keep |-> valid_programs]
        ELSE IF typed = {} THEN [ok |-> FALSE, keep |-> <<>>]
        ELSE [ok |-> TRUE,
              keep |-> SelectSeq(valid_programs, LAMBDA vp : Lower(Chars(vp)) \in typed)]

\* the tier a capitalised piece names, "" when it names none
TierNamed(piece) ==
    IF \E t \in Tiers : Chars(t) = piece THEN CHOOSE t \in Tiers : Chars(t) = piece ELSE ""

\* lines 268-277: what the answer to "Which importance levels to DELETE?" gives
ParseLevels(response) ==
    LET r == Lower(Strip(Chars(response)))
        pieces == Split(r)
        named == [k \in 1..Len(pieces) |-> TierNamed(Capitalize(Strip(pieces[k])))]
        levels == SelectSeq(named, LAMBDA t : t # "")
    IN  IF r = Chars("none") THEN [ok |-> TRUE, levels |-> <<>>]
        ELSE IF r = Chars("all") THEN [ok |-> TRUE, levels |-> <<"Low", "Medium", "High">>]
        ELSE IF levels = <<>> THEN [ok |-> FALSE, levels |-> <<>>]
        ELSE [ok |-> TRUE, levels |-> levels]

\* what the operator may type at the two prompts
KeepResponses ==
    {"none", " ALL ", "others", "Android Studio, Transporter", "bogus ,android studio",
     "bogus", ""}
LevelResponses ==
    {"none", "all", "low", "Low, medium", "HIGH ,bogus", "medium,high,medium", "bogus"}

\* lines 326-328, and lines 210-242 of display_and_filter_files (the summary is
\* only printed)
CheckEmpty ==
    /\ pc = "classified"
    /\ CASE to_delete = <<>> ->
                /\ pc' = "done"
                /\ outcome' = "no files found"
         [] to_delete # <<>> /\ valid_programs = <<>> ->
                /\ pc' = "done"
                /\ outcome' = "no files selected"
         [] OTHER ->
                /\ pc' = "ask_keep"
                /\ UNCHANGED outcome
    /\ UNCHANGED <<poolVars, aggVars, selVars, envVars, moveVars>>

\* lines 243-258: one answer at the first prompt
AskKeep(response) ==
    /\ pc = "ask_keep"
    /\ LET parsed == ParseKeep(response)
       IN  IF parsed.ok
           THEN /\ programs_to_keep' = parsed.keep
                /\ sel_k' = NextPrompt(1, parsed.keep)
                /\ to_move' = <<>>
                /\ pc' = "ask_levels"
           ELSE UNCHANGED <<programs_to_keep, sel_k, to_move, pc>>
    /\ UNCHANGED <<levels_chosen, outcome>>
    /\ UNCHANGED <<poolVars, aggVars, envVars, moveVars>>

\* AskLevels that appends every file of the program, whatever levels were typed
AskLevelsAppendsAll(response) ==
    /\ pc = "ask_levels"
    /\ sel_k <= Len(ProgramOrder)
    /\ LET program == ProgramOrder[sel_k]
           parsed == ParseLevels(response)
       IN  IF parsed.ok
           THEN /\ levels_chosen' = [levels_chosen EXCEPT ![program] = parsed.levels]
                /\ to_move' = to_move \o program_files[program]
                /\ sel_k' = NextPrompt(sel_k + 1, programs_to_keep)
           ELSE UNCHANGED <<levels_chosen, to_move, sel_k>>
    /\ UNCHANGED <<programs_to_keep, pc, outcome>>
    /\ UNCHANGED <<poolVars, aggVars, envVars, moveVars>>

\* lines 262-281: one answer at the prompt for the program at place sel_k
AskLevels(response) ==
    /\ pc = "ask_levels"
    /\ sel_k <= Len(ProgramOrder)
    /\ LET program == ProgramOrder[sel_k]
           parsed == ParseLevels(response)
       IN  IF parsed.ok
           THEN /\ levels_chosen' = [levels_chosen EXCEPT ![program] = parsed.levels]
                /\ to_move' = to_move \o
                      SelectSeq(program_files[program],
                                LAMBDA file : importance[file] \in Range(parsed.levels))
                /\ sel_k' = NextPrompt(sel_k + 1, programs_to_keep)
           ELSE UNCHANGED <<levels_chosen, to_move, sel_k>>
    /\ UNCHANGED <<programs_to_keep, pc, outcome>>
    /\ UNCHANGED <<poolVars, aggVars, envVars, moveVars>>

\* the loop of line 259 is over: lines 283-290 return to_move, and lines 330-336
\* of cleanup_files end the run when it is empty
Selected ==
    /\ pc = "ask_levels"
    /\ sel_k > Len(ProgramOrder)
    /\ IF to_move = <<>>
       THEN /\ pc' = "done"
            /\ outcome' = "no files selected"
       ELSE /\ pc' = "confirm"
            /\ UNCHANGED outcome
    /\ UNCHANGED <<poolVars, aggVars, selVars, envVars, moveVars>>

SelectNext ==
    \/ CheckEmpty
    \/ \E response \in KeepResponses : AskKeep(response)
    \/ \E response \in LevelResponses : AskLevels(response)
    \/ Selected

-----------------------------------------------------------------------------
(* The relocation: lines 336-351 of cleanup_files and move_to_backup (193-206) *)

\* os.path.expanduser("~") of the account that runs the cleaner
HOME == "/Users/u"

\* line 20: os.path.expanduser("~/SystemDataCleanupBackup")
BACKUP_DIR == "/Users/u/SystemDataCleanupBackup"

\* lines 195-196: where move_to_backup puts the file of a path
backup_path(file_path) ==
    join(PathList(Chars(BACKUP_DIR)), relpath(PathList(Chars(file_path)), PathList(Chars(HOME))))

\* what the operator may type at the prompt of line 338
ConfirmAnswers == {"y", "Y", "n", "yes", " y", ""}

\* what the file system does to one move_to_backup: both calls work, os.makedirs
\* raises, or shutil.move raises
FsOutcomes == {"ok", "makedirs fails", "move fails"}

LogEntry(kind, file) == [kind |-> kind, file |-> file]

\* Confirm that goes on unless the answer is "n"
ConfirmUnlessNo(answer) ==
    /\ pc = "confirm"
    /\ confirm' = answer
    /\ IF Lower(Chars(answer)) = Chars("n")
       THEN /\ pc' = "done"
            /\ outcome' = "aborted by user"
            /\ UNCHANGED move_k
       ELSE /\ pc' = "move"
            /\ move_k' = 1
            /\ UNCHANGED outcome
    /\ UNCHANGED <<attempts, present, dirs, dest_files, main_log>>
    /\ UNCHANGED <<poolVars, aggVars, selVars, envVars>>

\* lines 338-341: the answer to "Move ... files to backup? (y/n)", lower-cased
Confirm(answer) ==
    /\ pc = "confirm"
    /\ confirm' = answer
    /\ IF Lower(Chars(answer)) # Chars("y")
       THEN /\ pc' = "done"
            /\ outcome' = "aborted by user"
            /\ UNCHANGED move_k
       ELSE /\ pc' = "move"
            /\ move_k' = 1
            /\ UNCHANGED outcome
    /\ UNCHANGED <<attempts, present, dirs, dest_files, main_log>>
    /\ UNCHANGED <<poolVars, aggVars, selVars, envVars>>

\* move_to_backup that lets the exception of os.makedirs or shutil.move through:
\* the loop of line 343 is left and line 371 logs "Unexpected error"
move_to_backup_raises(file, fs) ==
    LET path == backup_path(files[file])
    IN  /\ attempts' = Append(attempts, file)
        /\ dirs' = IF fs # "makedirs fails" THEN dirs \cup {Resolve(dirname(path))} ELSE dirs
        /\ IF fs = "ok" \/ (DRY_RUN /\ fs # "makedirs fails")
           THEN /\ present' = IF DRY_RUN THEN present ELSE present \ {file}
                /\ dest_files' = IF DRY_RUN THEN dest_files ELSE dest_files \cup {Resolve(path)}
                /\ main_log' = Append(main_log, LogEntry("moved", file))
                /\ move_k' = move_k + 1
                /\ UNCHANGED <<pc, outcome>>
           ELSE /\ pc' = "crashed"
                /\ outcome' = "unexpected error"
                /\ UNCHANGED <<present, dest_files, main_log, move_k>>

\* move_to_backup(file_path), lines 193-206: os.makedirs, then shutil.move unless
\* DRY_RUN, then "Moved ..." is logged; an exception of either call is caught and
\* "Failed to move ..." is logged
move_to_backup(file, fs) ==
    LET path == backup_path(files[file])
        made == fs # "makedirs fails"
        moved == made /\ ~DRY_RUN /\ fs = "ok"
        raised == ~made \/ (~DRY_RUN /\ fs = "move fails")
    IN  /\ attempts' = Append(attempts, file)
        /\ dirs' = IF made THEN dirs \cup {Resolve(dirname(path))} ELSE dirs
        /\ present' = IF moved THEN present \ {file} ELSE present
        /\ dest_files' = IF moved THEN dest_files \cup {Resolve(path)} ELSE dest_files
        /\ main_log' = Append(main_log, LogEntry(IF raised THEN "failed" ELSE "moved", file))
        /\ move_k' = move_k + 1
        /\ UNCHANGED <<pc, outcome>>

\* MoveFile without the DRY_RUN test of line 344 and with a move_to_backup that
\* moves whatever DRY_RUN says
MoveFileIgnoresDryRun(fs) ==
    /\ pc = "move"
    /\ move_k <= Len(to_move)
    /\ LET file == to_move[move_k]
           path == backup_path(files[file])
       IN  /\ attempts' = Append(attempts, file)
           /\ dirs' = IF fs # "makedirs fails" THEN dirs \cup {Resolve(dirname(path))} ELSE dirs
           /\ present' = IF fs = "ok" THEN present \ {file} ELSE present
           /\ dest_files' = IF fs = "ok" THEN dest_files \cup {Resolve(path)} ELSE dest_files
           /\ main_log' = Append(main_log, LogEntry(IF fs = "ok" THEN "moved" ELSE "failed", file))
           /\ move_k' = move_k + 1
           /\ UNCHANGED <<pc, outcome>>
    /\ UNCHANGED confirm
    /\ UNCHANGED <<poolVars, aggVars, selVars, envVars>>

\* one pass of the loop of lines 343-347 for the record at place move_k
MoveFile(fs) ==
    /\ pc = "move"
    /\ move_k <= Len(to_move)
    /\ LET file == to_move[move_k]
       IN  IF DRY_RUN
           THEN /\ main_log' = Append(main_log, LogEntry("would move", file))
                /\ move_k' = move_k + 1
                /\ UNCHANGED <<attempts, present, dirs, dest_files, pc, outcome>>
           ELSE move_to_backup(file, fs)
    /\ UNCHANGED confirm
    /\ UNCHANGED <<poolVars, aggVars, selVars, envVars>>

\* the loop is over: lines 349-351 log "Files moved to ..." and cleanup_files returns
FinishMove ==
    /\ pc = "move"
    /\ move_k > Len(to_move)
    /\ pc' = "done"
    /\ outcome' = "files moved"
    /\ UNCHANGED moveVars
    /\ UNCHANGED <<poolVars, aggVars, selVars, envVars>>

MoveNext ==
    \/ \E answer \in ConfirmAnswers : Confirm(answer)
    \/ \E fs \in FsOutcomes : MoveFile(fs)
    \/ FinishMove

-----------------------------------------------------------------------------
(* Initial states *)

\* nothing asked, nothing moved: every scanned file is where the scan found it
InitMover ==
    /\ confirm = "-"
    /\ move_k = 0
    /\ attempts = <<>>
    /\ present = Records
    /\ dirs = {}
    /\ dest_files = {}
    /\ main_log = <<>>

\* cleanup_files is entered with a batch; lines 294-298 and the fresh executor
InitRun(batches, oracles, workers, failing, dry) ==
    /\ files \in batches
    /\ oracle \in oracles
    /\ max_workers \in workers
    /\ setup_fails \in failing
    /\ DRY_RUN \in dry
    /\ handlers = [t \in 1..NUM_THREADS |-> 0]
    /\ thread_log = {}
    /\ InitMover
    /\ submitted = 0
    /\ future = [i \in Records |-> "none"]
    /\ wpc = [i \in Records |-> "idle"]
    /\ attempt = [i \in Records |-> 0]
    /\ result = [i \in Records |-> NoResult]
    /\ replies = [i \in Records |-> <<>>]
    /\ waits = [i \in Records |-> 0]
    /\ pc = "submit"
    /\ cur = 0
    /\ processed = 0
    /\ yielded = {}
    /\ to_delete = <<>>
    /\ program_files = [p \in Programs |-> <<>>]
    /\ importance = [i \in Records |-> ""]
    /\ reason = [i \in Records |-> ""]
    /\ to_delete_lock = "free"
    /\ programs_to_keep = <<>>
    /\ sel_k = 0
    /\ levels_chosen = [p \in Programs |-> <<>>]
    /\ to_move = <<>>
    /\ outcome = ""

\* sample paths of scanned files (spelled out in Chars)
SamplePaths ==
    << "/L/Android Studio/a", "/L/x.db", "/L/transporter.log",
       "/L/Transporter/android studio", "/L/AndroidStudio/a", "/L/ANDROID STUDIO/a" >>

\* the batch of n distinct files that starts at sample s
Batch(s, n) == [j \in 1..n |-> SamplePaths[((s + j - 2) % Len(SamplePaths)) + 1]]
Batches(n) == {Batch(s, n) : s \in 1..Len(SamplePaths)}

\* the classification phase of cleanup_files: the pool and the aggregation loop
ClassifyNext ==
    \/ Submit
    \/ BeginCollect
    \/ \E i \in Records : Start(i)
    \/ \E i \in Records : StartRaises(i)
    \/ \E i \in Records : Request(i)
    \/ \E i \in Records : Cooldown(i)
    \/ \E i \in Records : Collect(i)
    \/ \E i \in Records : CollectRaises(i)
    \/ AttachFields
    \/ AppendToDelete
    \/ AppendGroup
    \/ ReleaseLock
    \/ EndCollect
    \/ Unwound

\* a short batch classified by an oracle that can give every kind of reply
NumDetailed == 1
InitDetailed ==
    InitRun(Batches(NumDetailed), [1..NumDetailed -> {OracleReplies}], {NUM_THREADS}, {TRUE},
            {FALSE})
SpecDetailed == InitDetailed /\ [][ClassifyNext]_vars

\* a batch larger than the pool; the oracle limits the rate of every request about
\* the first record and answers every request about the others
NumPool == 5
PoolOracle == [i \in 1..NumPool |-> IF i = 1 THEN {RateLimit} ELSE {Object("false", "Low"), BadText}]
InitPool == InitRun({Batch(1, NumPool)}, {PoolOracle}, {NUM_THREADS}, {TRUE}, {FALSE})
SpecPool == InitPool /\ [][ClassifyNext]_vars

\* every record has one fixed answer; any number of workers up to NUM_THREADS
NumFixed == 3
FixedAnswers == {{RateLimit}, {Object("false", "Low")}, {BadText}}
InitFixed ==
    InitRun({Batch(4, NumFixed)}, [1..NumFixed -> FixedAnswers], 1..NUM_THREADS, {TRUE},
            {FALSE})
SpecFixed == InitFixed /\ [][ClassifyNext]_vars

\* the states in which the phase has ended for a batch whose records the oracle
\* called important, or not important at one of the three tiers, the results
\* having arrived in submission order
Verdicts(n) == [1..n -> {"important"} \cup Tiers]
AnswerFor(verdict) ==
    IF verdict = "important" THEN Object("true", "High") ELSE Object("false", verdict)

InitClassified(batch, verdict) ==
    LET n == Len(batch)
        ids == [i \in 1..n |-> i]
    IN  /\ files = batch
        /\ oracle = [i \in 1..n |-> {AnswerFor(verdict[i])}]
        /\ max_workers = NUM_THREADS
        /\ setup_fails = FALSE
        /\ submitted = n
        /\ future = [i \in 1..n |-> "finished"]
        /\ wpc = [i \in 1..n |-> "returned"]
        /\ attempt = [i \in 1..n |-> 0]
        /\ result = [i \in 1..n |-> HandleReply(AnswerFor(verdict[i]))]
        /\ replies = [i \in 1..n |-> <<AnswerFor(verdict[i])>>]
        /\ waits = [i \in 1..n |-> 0]
        /\ handlers = [t \in 1..NUM_THREADS |->
                          IF \E i \in 1..n : thread_id(i) = t
                          THEN CHOOSE i \in 1..n : thread_id(i) = t
                                                   /\ \A j \in 1..n : thread_id(j) = t => j <= i
                          ELSE 0]
        /\ thread_log = 1..n
        /\ InitMover
        /\ pc = "classified"
        /\ cur = n
        /\ processed = n
        /\ yielded = 1..n
        /\ to_delete = SelectSeq(ids, LAMBDA i : verdict[i] # "important")
        /\ program_files =
              [p \in Programs |->
                  SelectSeq(ids, LAMBDA i : verdict[i] # "important"
                                            /\ get_program_name(batch[i]) = p)]
        /\ importance = [i \in 1..n |-> IF verdict[i] = "important" THEN "" ELSE verdict[i]]
        /\ reason = [i \in 1..n |-> IF verdict[i] = "important" THEN "" ELSE "oracle reason"]
        /\ to_delete_lock = "free"
        /\ programs_to_keep = <<>>
        /\ sel_k = 0
        /\ levels_chosen = [p \in Programs |-> <<>>]
        /\ to_move = <<>>
        /\ outcome = ""

\* the operator's review of what a classified batch left
NumSelect == 3
InitSelect ==
    \E start \in {3, 4} : \E verdict \in Verdicts(NumSelect) :
        InitClassified(Batch(start, NumSelect), verdict) /\ DRY_RUN = FALSE
SpecSelect == InitSelect /\ [][SelectNext]_vars

\* paths the scan of SCAN_DIRS (lines 90-96) yields: below ~/Library/Caches and
\* ~/Library/Logs, below /Library/Caches and below /private/var/tmp
ScannedPaths ==
    << "/Users/u/Library/Caches/app/x.db", "/Library/Caches/app/x.db",
       "/Users/u/Library/Logs/app/x.db", "/private/var/tmp/z",
       "/Users/u/Library/Caches/Android Studio/a" >>

\* the batch of n distinct scanned files that starts at path s
ScannedBatch(s, n) == [j \in 1..n |-> ScannedPaths[((s + j - 2) % Len(ScannedPaths)) + 1]]

\* the review and the relocation of a classified batch whose records the oracle
\* called not important, with DRY_RUN set or not
NumMove == 2
InitMove ==
    \E start \in 1..Len(ScannedPaths) : \E dry \in BOOLEAN :
        /\ InitClassified(ScannedBatch(start, NumMove), [i \in 1..NumMove |-> "Low"])
        /\ DRY_RUN = dry
SpecMove == InitMove /\ [][SelectNext \/ MoveNext]_vars

\* a whole run of cleanup_files.  The first file is in an Android Studio directory
\* and the oracle calls it not important, Low; the classification of the second
\* fails (rate limits, then text that is no JSON); the third belongs to no known
\* program and the oracle may call it anything; a further one is not important, Medium
NumRun == 3
RunOracle ==
    [i \in 1..NumRun |->
        CASE i = 1 -> {Object("false", "Low")}
          [] i = 2 -> {RateLimit, BadText}
          [] i = 3 -> {Object("false", t) : t \in Tiers} \cup {Object("true", "High")}
          [] OTHER -> {Object("false", "Medium")}]
Init == InitRun({ScannedBatch(5, NumRun)}, {RunOracle}, {NUM_THREADS}, {TRUE}, BOOLEAN)
Next == ClassifyNext \/ SelectNext \/ MoveNext
Spec == Init /\ [][Next]_vars

-----------------------------------------------------------------------------
(* Properties of the classification phase *)

Last(seq) == seq[Len(seq)]

\* the record is in the aggregation state (to_delete or a program group)
InToDelete(i) == i \in Range(to_delete)
GroupsOf(i) == {p \in Programs : i \in Range(program_files[p])}
Occurrences(seq, x) == Cardinality({k \in 1..Len(seq) : seq[k] = x})

\* the invocation for record i has returned its pair
Returned(i) == future[i] = "finished"

\* the oracle exchange ended in an error: a transport error, content that is no
\* JSON, JSON that is no object, or an object without one of the three keys
ErrorReply(reply) ==
    \/ reply.kind \in {"transport_error", "text", "value"}
    \/ reply.kind = "object" /\ ~(RequiredKeys \subseteq reply.keys)

WellFormed(reply) == reply.kind = "object" /\ RequiredKeys \subseteq reply.keys

\* every request of the invocation was answered by a rate limit, MAX_ATTEMPTS times
Exhausted(i) ==
    /\ Len(replies[i]) = MAX_ATTEMPTS
    /\ \A k \in 1..Len(replies[i]) : replies[i][k] = RateLimit
    /\ Returned(i)

\* C1: once the classification phase is over, exactly one (record, classification)
\* pair has been produced and taken for every record of the batch, whatever the
\* oracle did.  (The claim; the code violates it when an invocation raises
\* before its first request.)
C1_OnePairPerRecord ==
    pc \in {"classified", "crashed"} =>
        /\ processed = Len(files)
        /\ yielded = Records
        /\ \A i \in Records : Returned(i) /\ result[i] # NoResult

\* C2: an invocation whose oracle exchange errored, or whose retries are used up,
\* returns important = true and importance = High, and its record is in neither
\* to_delete nor any program group.
C2_FailSafe ==
    \A i \in Records :
        (Returned(i) /\ (ErrorReply(Last(replies[i])) \/ Exhausted(i))) =>
            /\ result[i].important = "true"
            /\ result[i].importance = "High"
            /\ ~InToDelete(i)
            /\ GroupsOf(i) = {}

\* the phase is over and the aggregation loop has taken, and not retained, the
\* record of an invocation that used up its retries or got content that is no JSON
C2_Witness ==
    /\ pc = "classified"
    /\ \E i \in Records :
          /\ i \in yielded
          /\ Exhausted(i) \/ (Returned(i) /\ Last(replies[i]) = BadText)
          /\ ~InToDelete(i)

\* C3: a record is retained (in to_delete or in a program group) only if its
\* classification has important equal to the boolean false.  (The claim; the
\* code retains on any falsy value.)
C3_RetainedOnlyIfFalse ==
    \A i \in Records :
        (InToDelete(i) \/ GroupsOf(i) # {}) => result[i].important = "false"

\* C4: an invocation sends at most 3 requests; every request but the last was
\* answered by a rate limit; a cooldown was slept after each rate limit before
\* the next request; a reply that is no rate limit ends the invocation.
C4_RetryPolicy ==
    \A i \in Records :
        /\ Len(replies[i]) <= 3
        /\ \A k \in 1..(Len(replies[i]) - 1) : replies[i][k] = RateLimit
        /\ Len(replies[i]) <= waits[i] + 1
        /\ (future[i] = "running" /\ wpc[i] = "request") => waits[i] = Len(replies[i])
        /\ (replies[i] # <<>> /\ Last(replies[i]) # RateLimit) => Returned(i)

\* an invocation was limited twice, slept twice, and its third request failed
C4_Witness ==
    \E i \in Records :
        /\ Len(replies[i]) = 3
        /\ replies[i][3] = TransportError
        /\ waits[i] = 2
        /\ Returned(i)

\* C5: at most NUM_THREADS invocations have started and not yet returned.
C5_BoundedInFlight == Cardinality(Running) <= NUM_THREADS

\* the pool is full while a submitted record waits for a worker
C5_Witness == Cardinality(Running) = NUM_THREADS /\ Pending # {}

\* what the fixed answer about record i makes of it (defined when oracle[i] has
\* one element)
FixedAnswer(i) == CHOOSE reply \in oracle[i] : TRUE
ExpectedGroup(p) ==
    {i \in Records : /\ WellFormed(FixedAnswer(i))
                     /\ FixedAnswer(i).important = "false"
                     /\ get_program_name(files[i]) = p}

\* C6: with a fixed batch and a fixed answer per record, the members of every
\* program group at the end of the phase are determined by the batch and the
\* answers alone, for every number of workers and every order of arrival.
C6_MembershipIndependent ==
    pc = "classified" =>
        \A p \in Programs : Range(program_files[p]) = ExpectedGroup(p)

\* a run with several workers in which results arrived out of submission order
C6_Witness ==
    /\ pc = "classified"
    /\ Len(to_delete) >= 2
    /\ to_delete[1] > to_delete[2]
    /\ max_workers > 1

\* outside the critical section: every retained record is once in to_delete and
\* once in exactly one group, and the groups hold nothing else
AggregationConsistent ==
    /\ \A i \in Range(to_delete) :
          /\ Occurrences(to_delete, i) = 1
          /\ Cardinality(GroupsOf(i)) = 1
          /\ \A p \in GroupsOf(i) : Occurrences(program_files[p], i) = 1
    /\ \A p \in Programs : Range(program_files[p]) \subseteq Range(to_delete)

\* C7: to_delete and program_files change only while to_delete_lock is held, and
\* whenever the lock is free the two structures agree.
C7_LockedAdditions ==
    /\ [](to_delete_lock = "free" => AggregationConsistent)
    /\ [][(to_delete' # to_delete \/ program_files' # program_files)
             => (to_delete_lock = "main" /\ to_delete_lock' = "main")]_vars

\* inside the critical section the record is in to_delete and in no group yet,
\* while a worker is still classifying
C7_Witness ==
    /\ pc = "cs_group"
    /\ to_delete_lock = "main"
    /\ InToDelete(cur) /\ GroupsOf(cur) = {}
    /\ Running # {}

\* equality of two characters up to case
SameLetter(a, b) == LowerChar(a) = LowerChar(b) \/ UpperChar(a) = UpperChar(b)

\* the name occurs in the path as a substring, letters compared up to case
OccursIgnoringCase(name, path) ==
    \E off \in 0..(Len(path) - Len(name)) :
        \A k \in 1..Len(name) : SameLetter(path[off + k], name[k])

\* the program a sample path is to be attributed to: the first known program
\* (Android Studio, then Transporter) whose name occurs in it up to case, else Others
ProgramNamedIn ==
    [path \in Range(SamplePaths) |->
        CASE OccursIgnoringCase(Chars("Android Studio"), Chars(path)) -> "Android Studio"
          [] OccursIgnoringCase(Chars("Transporter"), Chars(path))    -> "Transporter"
          [] OTHER                                                    -> "Others"]

\* C8: a record in a program group is in the group of the first known program
\* (Android Studio, then Transporter) whose name occurs in its path up to case,
\* and in Others when none occurs; outside the critical section a retained
\* record is in exactly one group.
C8_ProgramAttribution ==
    /\ \A p \in Programs : \A i \in Range(program_files[p]) : p = ProgramNamedIn[files[i]]
    /\ to_delete_lock = "free" =>
          \A i \in Range(to_delete) : Cardinality(GroupsOf(i)) = 1

\* a path that names both programs, Transporter first and Android Studio in
\* lower case, is in the group Android Studio
C8_Witness ==
    \E i \in Records :
        /\ files[i] = "/L/Transporter/android studio"
        /\ GroupsOf(i) = {"Android Studio"}

\* C9: a returned classification has a tier in {Low, Medium, High}; a well-formed
\* answer keeps its important and reason and its tier, or gets Medium when the
\* tier is no tier; an invalid or unparsable answer gives true / High.
C9_TierNormalised ==
    \A i \in Records : Returned(i) =>
        /\ result[i].importance \in {"Low", "Medium", "High"}
        /\ (replies[i] # <<>> /\ WellFormed(Last(replies[i]))) =>
              /\ result[i].important = Last(replies[i]).important
              /\ result[i].reason = Last(replies[i]).reason
              /\ result[i].importance =
                    IF Last(replies[i]).importance \in {"Low", "Medium", "High"}
                    THEN Last(replies[i]).importance ELSE "Medium"
        /\ (replies[i] # <<>> /\ Last(replies[i]).kind \in {"text", "value", "object"}
              /\ ~WellFormed(Last(replies[i]))) =>
              /\ result[i].important = "true"
              /\ result[i].importance = "High"

\* a well-formed answer with the tier "Critical" was returned as Medium
C9_Witness ==
    \E i \in Records :
        /\ Returned(i)
        /\ WellFormed(Last(replies[i]))
        /\ Last(replies[i]).importance = "Critical"
        /\ result[i].importance = "Medium"
        /\ result[i].important = "false"

-----------------------------------------------------------------------------
(* Properties of the selection *)

\* display_and_filter_files has returned
SelectionMade == pc = "confirm" \/ (pc = "done" /\ outcome = "no files selected")

Kept(p) == p \in Range(programs_to_keep)

\* C10: the selection holds, once each, exactly the retained records whose program
\* is not kept and whose tier is among the tiers chosen for their program; it is
\* empty when every program with files is kept, and holds every record of a
\* program that is not kept and for which all three tiers were chosen.
C10_Selection ==
    SelectionMade =>
        /\ Range(to_move) =
              {i \in Range(to_delete) :
                  \E p \in GroupsOf(i) : ~Kept(p) /\ importance[i] \in Range(levels_chosen[p])}
        /\ \A i \in Range(to_move) : Occurrences(to_move, i) = 1
        /\ (\A p \in Programs : program_files[p] # <<>> => Kept(p)) => to_move = <<>>
        /\ \A p \in Programs :
              (~Kept(p) /\ Range(levels_chosen[p]) = Tiers) =>
                  Range(program_files[p]) \subseteq Range(to_move)

\* one program is kept, and of another program's two records of different
\* tiers one is selected and one is not
C10_Witness ==
    /\ pc = "confirm"
    /\ programs_to_keep # <<>>
    /\ \E p \in Programs : \E i, j \in Range(program_files[p]) :
          /\ ~Kept(p)
          /\ importance[i] # importance[j]
          /\ i \in Range(to_move)
          /\ j \notin Range(to_move)

-----------------------------------------------------------------------------
(* Properties of the relocation *)

\* path a is path b or lies below it
Inside(a_list, b_list) ==
    Len(a_list) >= Len(b_list) /\ SubSeq(a_list, 1, Len(b_list)) = b_list

\* where the file of a scanned path ends up, and the directory made for it
DestinationOf == [p \in Range(ScannedPaths) |-> Resolve(backup_path(p))]
DestinationDirOf == [p \in Range(ScannedPaths) |-> Resolve(dirname(backup_path(p)))]

\* the relocation loop has run to its end
Relocated == pc = "done" /\ outcome = "files moved"

\* main_logger has an entry of the kind about the record
LoggedAs(kind, file) == \E e \in 1..Len(main_log) : main_log[e] = LogEntry(kind, file)

\* C11: with DRY_RUN set and the operator's confirmation, the relocation still makes
\* the backup directory of every selected record and logs every selected record;
\* only the move is left out.  (The claim; the loop of lines 343-347 does not call
\* move_to_backup when DRY_RUN is set, so no directory is made.)
C11_DryRunMakesDirectories ==
    (DRY_RUN /\ Relocated) =>
        \A k \in 1..Len(to_move) :
            /\ DestinationDirOf[files[to_move[k]]] \in dirs
            /\ \E e \in 1..Len(main_log) : main_log[e].file = to_move[k]
            /\ to_move[k] \in present

\* C12: with DRY_RUN set, whatever the batch, the oracle and the operator do, every
\* scanned file stays at its original path and no file appears at a destination;
\* and once the run is over every selected record has its decision in the logs:
\* the classification a thread logger wrote and, when the operator confirmed, the
\* "[DRY RUN] Would move" entry of main_logger.
C12_DryRunLeavesFiles ==
    DRY_RUN =>
        /\ present = Records
        /\ dest_files = {}
        /\ pc = "done" =>
              \A i \in Range(to_move) :
                  /\ i \in thread_log
                  /\ Relocated => LoggedAs("would move", i)

\* a confirmed dry run over a selection of two records has ended
C12_Witness ==
    /\ DRY_RUN
    /\ Relocated
    /\ Len(to_move) = 2
    /\ Lower(Chars(confirm)) = Chars("y")

\* C13: without DRY_RUN, a move that fails does not end the relocation: while the
\* loop runs, move_to_backup has been called once for each selected record before
\* the current one, in the order of the selection, whatever became of the earlier
\* calls; every call, failed or not, is logged; the run does not crash, and when it
\* has ended after a confirmation every selected record has had its one attempt.
C13_FailureDoesNotAbort ==
    (~DRY_RUN /\ confirm # "-") =>
        /\ pc \in {"move", "done"}
        /\ pc = "move" => attempts = SubSeq(to_move, 1, move_k - 1)
        /\ Len(main_log) = Len(attempts)
        /\ \A k \in 1..Len(attempts) :
              /\ main_log[k].file = attempts[k]
              /\ main_log[k].kind \in {"moved", "failed"}
              /\ main_log[k].kind = "moved" <=> attempts[k] \notin present
        /\ (pc = "done" /\ Lower(Chars(confirm)) = Chars("y")) =>
              /\ attempts = to_move
              /\ outcome = "files moved"

\* the relocation has ended; the first move failed and the second one was made
C13_Witness ==
    /\ ~DRY_RUN
    /\ Relocated
    /\ Len(attempts) = 2
    /\ main_log[1].kind = "failed"
    /\ main_log[2].kind = "moved"
    /\ attempts[2] \notin present

\* the path string of a list of components
RECURSIVE PathString(_)
PathString(path_list) ==
    IF path_list = <<>> THEN <<>> ELSE <<"/">> \o Head(path_list) \o PathString(Tail(path_list))

\* the scanned path lies under the home directory
UnderHome(p) == Inside(PathList(Chars(p)), PathList(Chars(HOME)))

\* the path string with the home prefix taken off and the backup root put in front
ExpectedDestination(p) ==
    Chars(BACKUP_DIR) \o SubSeq(Chars(p), Len(Chars(HOME)) + 1, Len(Chars(p)))

\* C14: for a file under the home directory the destination is the backup root
\* followed by the path without its home prefix (~/Library/Caches/app/x.db goes to
\* <backup root>/Library/Caches/app/x.db), that is where a moved file is, and two
\* different files under the home directory have different destinations.
C14_RelativePathLaw ==
    /\ \A i \in Records :
          UnderHome(files[i]) =>
              /\ PathString(backup_path(files[i])) = ExpectedDestination(files[i])
              /\ DestinationOf[files[i]] = backup_path(files[i])
              /\ i \in Range(attempts) /\ i \notin present => DestinationOf[files[i]] \in dest_files
    /\ \A i, j \in Records :
          (i # j /\ UnderHome(files[i]) /\ UnderHome(files[j])) =>
              DestinationOf[files[i]] # DestinationOf[files[j]]
    /\ UnderHome("/Users/u/Library/Caches/app/x.db")
    /\ PathString(backup_path("/Users/u/Library/Caches/app/x.db")) =
          Chars(BACKUP_DIR) \o
              <<"/","L","i","b","r","a","r","y","/","C","a","c","h","e","s","/","a","p","p","/",
                "x",".","d","b">>

\* two files under the home directory have been moved
C14_Witness ==
    \E i, j \in Records :
        /\ i # j
        /\ UnderHome(files[i]) /\ UnderHome(files[j])
        /\ i \notin present /\ j \notin present
        /\ Cardinality(dest_files) = 2

\* the positions of the main thread after the `with ThreadPoolExecutor` block
AfterClassification == {"classified", "ask_keep", "ask_levels", "confirm", "move", "done"}

\* a step taken after the pool's block leaves the aggregation and the pool as they are
FrozenAfterClassification ==
    pc \in AfterClassification =>
        /\ pc' \in AfterClassification
        /\ UNCHANGED <<program_files, to_delete, importance, reason>>
        /\ UNCHANGED poolVars

\* C15: the review and the relocation come after the classification: whenever the
\* main thread is past the pool's block, every submitted task has returned and its
\* result has been taken, no task is queued or running and the lock is free; a
\* prompt is answered, a record selected or a move attempted only then; and from
\* then on no step changes the groups, to_delete, a record's tier or a task.
C15_PhasesDoNotInterleave ==
    /\ [](pc \in AfterClassification =>
            /\ submitted = Len(files)
            /\ \A i \in Records : future[i] = "finished" /\ wpc[i] = "returned"
            /\ yielded = Records
            /\ to_delete_lock = "free")
    /\ [](pc \notin AfterClassification =>
            /\ to_move = <<>> /\ programs_to_keep = <<>> /\ sel_k = 0
            /\ confirm = "-" /\ attempts = <<>> /\ main_log = <<>>)
    /\ [][FrozenAfterClassification]_vars

\* a file is moved in a run in which a task had to wait for the oracle
C15_Witness ==
    /\ pc = "move"
    /\ attempts # <<>>
    /\ \E i \in Records : waits[i] > 0

\* the operator answered the prompt of line 338 with y (in either case)
Confirmed == confirm # "-" /\ Lower(Chars(confirm)) = Chars("y")

\* C16: nothing is moved unless the operator answered y at the confirmation: a call
\* of move_to_backup, a directory made, a file gone from its place or present at a
\* destination, or a relocation log entry implies that answer; and after any other
\* answer the run is over as "aborted by user" and none of these has happened.
C16_NoMoveWithoutYes ==
    /\ (\/ attempts # <<>> \/ main_log # <<>> \/ dirs # {} \/ dest_files # {}
        \/ present # Records \/ pc = "move" \/ Relocated) => Confirmed
    /\ (confirm # "-" /\ ~Confirmed) =>
          /\ pc = "done"
          /\ outcome = "aborted by user"
          /\ attempts = <<>> /\ main_log = <<>> /\ dirs = {} /\ dest_files = {}
          /\ present = Records

\* the operator answered "yes" to the confirmation of a selection of two records
C16_Witness ==
    /\ confirm = "yes"
    /\ outcome = "aborted by user"
    /\ Len(to_move) = 2
    /\ ~DRY_RUN

\* get_program_name on the scanned paths
ProgramOfScanned == [p \in Range(ScannedPaths) |-> get_program_name(p)]

\* the records of the scenario: the first is in the Android Studio group with tier
\* Low, the second got the fail-safe after its classification failed, the third
\* names no known program
ScenarioRecords ==
    /\ Len(files) >= 3
    /\ 1 \in Range(program_files["Android Studio"])
    /\ result[1] = Classification("false", "Low", "oracle reason")
    /\ replies[2] # <<>>
    /\ Last(replies[2]) \in {BadText, RateLimit}
    /\ result[2] \in {FailSafe("JSON parse error"), FailSafe("Failed after retries")}
    /\ ProgramOfScanned[files[3]] = "Others"

\* the operator of the scenario: keeps no program and, for every program asked
\* about, deletes the tiers Low and Medium; the review is over
ScenarioChoices ==
    /\ sel_k > Len(ProgramOrder)
    /\ programs_to_keep = <<>>
    /\ \A p \in Programs : program_files[p] # <<>> => levels_chosen[p] = <<"Low", "Medium">>

\* C17 as stated: in the scenario the selection is exactly the Android Studio
\* record, whatever tier the record of Others has.  (Refuted: a Low or Medium
\* record of Others is selected as well.)
C17_ScenarioSelection ==
    (ScenarioChoices /\ Len(files) = 3 /\ ScenarioRecords) => Range(to_move) = {1}

\* C17, amended: in the scenario the selection holds the Android Studio record,
\* never the record that got the fail-safe, and a record of Others exactly when
\* the oracle called it not important with tier Low or Medium; so it is exactly
\* the Android Studio record when the record of Others is important or High.
C17_ScenarioSelectionAmended ==
    (ScenarioChoices /\ ScenarioRecords) =>
        /\ 1 \in Range(to_move)
        /\ 2 \notin Range(to_move)
        /\ \A i \in Records \ {1, 2} :
              i \in Range(to_move) <=>
                  (Retained(result[i]) /\ result[i].importance \in {"Low", "Medium"})
        /\ \A i \in Range(to_move) : Occurrences(to_move, i) = 1
        /\ (\A i \in Records \ {1, 2} :
                ~Retained(result[i]) \/ result[i].importance = "High") =>
              to_move = <<1>>

\* the scenario with a record of Others that is not important, High: the review
\* ends with the Android Studio record alone
C17_Witness ==
    /\ pc = "confirm"
    /\ ScenarioChoices
    /\ Len(files) = 3
    /\ ScenarioRecords
    /\ 3 \in Range(program_files["Others"])
    /\ importance[3] = "High"
    /\ to_move = <<1>>

\* C18: no invocation of classify_file_with_openai raises, not even while it builds
\* its logger and client; future.result() never raises in the aggregation loop, the
\* run does not end in "Unexpected error", and the results of all records are
\* taken.  (The claim; lines 130-131 are outside the try block, so an exception
\* there is stored in the future and re-raised by line 306.)
C18_NeverRaises ==
    /\ \A i \in Records : future[i] # "raised"
    /\ pc \notin {"unwinding", "crashed"}
    /\ outcome # "unexpected error"
    /\ pc = "classified" => processed = Len(files)

\* C19: whatever record reaches move_to_backup, under the home directory or not,
\* its destination lies inside BACKUP_DIR: every directory made and every place a
\* file was moved to is BACKUP_DIR or below it.  (The claim; for a path outside
\* the home directory os.path.relpath starts with pardir steps, which take the
\* joined path out of BACKUP_DIR.)
C19_DestinationInsideBackup ==
    /\ \A i \in Range(attempts) :
          Inside(DestinationOf[files[i]], PathList(Chars(BACKUP_DIR)))
    /\ \A d \in dirs \cup dest_files : Inside(d, PathList(Chars(BACKUP_DIR)))

\* C20: the task of record i (counted from 0) logs to lane (i mod NUM_THREADS) + 1,
\* and no two tasks of one lane are in flight together, so that the logger of a
\* lane always holds the handler of the one task that is using it.  (The claim;
\* the pool gives a free thread to the next queued task whatever its lane, so
\* task 5 starts on lane 1 while task 1 is still waiting for the oracle.)
C20_LanesNeverShared ==
    /\ \A t \in 1..NUM_THREADS : handlers[t] # 0 => thread_id(handlers[t]) = t
    /\ \A i, j \in Running : i # j => thread_id(i) # thread_id(j)
    /\ \A i \in Running : handlers[thread_id(i)] = i

====
